---- MODULE Spec2Model ----
(***************************************************************************)
(* Motor admission control, request queue and admin shutdown of            *)
(* go-mqtt-backend (package handlers).                                     *)
(*                                                                         *)
(* The repository carries two revisions of handlers/mqtt.go.  The model    *)
(* composes them: the shutdown gate, the dequeue-time quota check and the  *)
(* admin handlers come from the revision with admin shutdown               *)
(* (src/unnamed/part_005); the audit write before the enqueue and the      *)
(* actuator on / sleep / off sequence come from src/handlers/mqtt.go       *)
(* (the same three statements are listed in part_005 lines 129-131 as the  *)
(* production motor control).                                              *)
(*                                                                         *)
(* Every goroutine is a process with a program counter.  One step is one   *)
(* mutex acquisition, one critical section up to its Unlock, or one        *)
(* blocking / external call (channel send or receive, DB write, MQTT       *)
(* publish, sleep).                                                        *)
(*                                                                         *)
(* time.Duration is a signed 64-bit integer in nanoseconds.  The model     *)
(* keeps the two's-complement wrap-around on a narrower word (Bits) and    *)
(* scales the time constants so that  Second < Hour < 24h < 2^(Bits-1).    *)
(***************************************************************************)
EXTENDS Integers, Sequences, FiniteSets, TLC

(* ---------------------------- bounds ---------------------------------- *)
MaxAttempts == 2    \* admission requests started in one behaviour
QueueAttempts == 4  \* the same, where the queue is to be filled
MaxAdminOps == 2    \* admin shutdown / restart requests started
MaxTime == 24       \* the clock stops advancing past this instant
MaxStatus == 1      \* status requests started
StatusAttempts == 1 \* admission requests started where status is observed
StatusAdminOps == 1 \* admin requests started where status is observed
MaxUserOps == 3     \* register / login requests made
MaxMwOps == 2       \* requests sent to the admin-guarded route
LockAttempts == 2   \* admissions started where the two locks are contended
LiveAttempts == 4   \* admissions started where progress of the queue is checked

(* ------------------------ program constants --------------------------- *)
Bits == 6                      \* width of time.Duration (int64, scaled)
Modulus == 2 ^ Bits
MaxDuration == (Modulus \div 2) - 1
MinDuration == 0 - (Modulus \div 2)
Second == 2                    \* time.Second, in Duration units
Hour == 3 * Second             \* time.Hour (scaled)
motorQuota == 1 * Hour         \* max allowed per quota window
QuotaPeriod == 2 * Hour        \* the 24 * time.Hour added to time.Now()
QueueCap == 2                  \* capacity of the motorQueue channel

HandlerSeq == << "h1", "h2" >>  \* concurrent HTTP goroutines for /motor/on
Handlers == {HandlerSeq[i] : i \in 1..Len(HandlerSeq)}
\* JSON bodies of POST /motor/on: the duration field may be missing, and
\* encoding/json then leaves input.Duration at its zero value.
Durations == {0, -1, 1, 2, 15, 16}
Bodies == {[has |-> FALSE, duration |-> 0]} \cup [has : {TRUE}, duration : Durations]
NoUser == "nouser"
\* bodies / callers of POST /admin/shutdown: a missing reason, a caller that
\* is not in the users table, and two well-formed shutdowns
ShutdownInputs == {[reason |-> "", user |-> "opA"],
                   [reason |-> "maintenance", user |-> NoUser],
                   [reason |-> "maintenance", user |-> "opA"],
                   [reason |-> "fault", user |-> "opB"]}
\* e-mails and passwords of /register and /login; "" is a missing field
Emails == {"a@x", "b@x"}
Passwords == {"", "p1", "p2"}
NoHash == << >>
\* bcrypt.GenerateFromPassword / bcrypt.CompareHashAndPassword
Hash(p) == << "bcrypt", p >>
HashMatches(h, p) == h = Hash(p)
\* the columns AutoMigrate(&models.User{}) gives the users table
UserColumns == {"id", "email", "password", "role"}
\* DB.Where(col + " = ?", v).First(&user): an error when the column does not
\* exist or no row matches, the stored hash otherwise
FindUser(table, col, v) ==
  IF col \notin UserColumns \/ v \notin DOMAIN table \/ table[v] = NoHash
    THEN [err |-> TRUE, hash |-> NoHash]
    ELSE [err |-> FALSE, hash |-> table[v]]
\* users.role of the callers: opA was created with role "admin", every other
\* user has the default role "user"
Role(u) == IF u = "opA" THEN "admin" ELSE "user"
NoReq == [id |-> 0, d |-> 0, after |-> {}]
ZeroTime == 0 - 1              \* time.Time{}: before every instant of the clock

(* -------------------------- pure helpers ------------------------------ *)
\* int64 arithmetic of time.Duration: results wrap around.
Wrap(x) == ((x - MinDuration) % Modulus) + MinDuration

\* time.Duration(input.Duration) * time.Second
ToDuration(n) == Wrap(n * Second)

\* c.ShouldBindJSON with binding:"required" on an int field: the validator
\* rejects the zero value, which is also what a missing field decodes to
Decoded(body) == IF body.has THEN body.duration ELSE 0
BindOK(body) == Decoded(body) # 0

\* time.Now().After(quotaResetTime)
WindowExpired(t, reset) == t > reset

\* totalMotorTime + d > motorQuota
QuotaExceeded(total, d) == Wrap(total + d) > motorQuota

\* totalMotorTime += req.Duration
Charge(total, d) == Wrap(total + d)

\* a window reset that moves the timestamp and forgets to zero the total
ResetTotalKept(t, reset, total) == total

\* a reset that moves the window on from its old end instead of from now
ResetTimeFromEnd(t, reset) ==
  IF WindowExpired(t, reset) THEN reset + QuotaPeriod ELSE reset

\* the lazy window reset both quota checks start with
ResetTotal(t, reset, total) == IF WindowExpired(t, reset) THEN 0 ELSE total
ResetTime(t, reset) == IF WindowExpired(t, reset) THEN t + QuotaPeriod ELSE reset

\* a queue that hands out the newest request first
SendFront(q, r) == << r >> \o q

\* motorQueue <- req : the send blocks while the buffer is full
CanSend(q) == Len(q) < QueueCap
Send(q, r) == Append(q, r)
\* req := <-motorQueue : the receive blocks while the buffer is empty
CanRecv(q) == Len(q) > 0
Recv(q) == Head(q)
AfterRecv(q) == Tail(q)

VARIABLES
  now,              \* time.Now()
  totalMotorTime,   \* quota accumulator
  quotaResetTime,   \* end of the current quota window
  motorQuotaMutex,  \* holder of the quota lock, or "free"
  isShutdown, shutdownReason, shutdownBy, shutdownAt,
  shutdownMutex,    \* holder of the shutdown lock, or "free"
  motorQueue,       \* buffered channel of requests
  activations,      \* number of audit rows written (DeviceActivation)
  hpc, hloc,        \* admission goroutines: position and locals
  ppc, preq,        \* queue processor: position and current request
  apc, aloc,        \* admin goroutine: position and locals
  motor,            \* last command published to motor/control
  windowSum,        \* sum of the durations charged since the last reset,
                    \* as a mathematical integer
  expiredTotal,     \* totalMotorTime as the last lazy reset found it
  running,          \* ids of the requests between their "on" and their "off"
  sent,             \* number of requests sent to motorQueue
  attempts, adminOps,  \* requests started so far
  spc, sloc,        \* status goroutine: position and the snapshot it builds
  statusOps,        \* status requests started so far
  users,            \* the users table: e-mail -> stored password hash
  uresp,            \* the last answer of /register or /login
  userOps,          \* register / login requests made so far
  ctx,              \* the gin context of the request on the admin-guarded route
  mwOps             \* requests sent to the admin-guarded route so far

vars == << now, totalMotorTime, quotaResetTime, motorQuotaMutex, isShutdown,
           shutdownReason, shutdownBy, shutdownAt, shutdownMutex, motorQueue,
           activations, hpc, hloc, ppc, preq, apc, aloc, motor, windowSum,
           expiredTotal, running, sent, attempts, adminOps, spc, sloc,
           statusOps, users, uresp, userOps, ctx, mwOps >>

NoLoc == [id |-> 0, body |-> [has |-> FALSE, duration |-> 0], d |-> 0,
          uid |-> TRUE, code |-> 0, after |-> {},
          reason |-> "", by |-> "", at |-> ZeroTime, late |-> FALSE]
NoALoc == [op |-> "none", reason |-> "", user |-> NoUser, code |-> 0,
           rreason |-> "", rby |-> "", rat |-> ZeroTime]
NoResp == [op |-> "none", email |-> "", password |-> "", code |-> 0,
           token |-> FALSE]
NoSLoc == [code |-> 0, is_shutdown |-> FALSE, reason |-> "", by |-> "",
           at |-> ZeroTime, total |-> 0, reset |-> ZeroTime, qlen |-> 0]
NoCmd == [cmd |-> "none", src |-> "none", shut |-> FALSE, ok |-> TRUE]

\* the handlers of a route guarded by AdminMiddleware, and the context of a
\* request before the engine has started on them
Chain == << "AdminMiddleware", "Handler" >>
NoCtx == [pc |-> "idle", ret |-> "idle", header |-> "none", claim |-> "none",
          user |-> "none", index |-> 0 - 1, aborted |-> FALSE,
          user_id |-> FALSE, code |-> 0, passed |-> FALSE, ran |-> 0,
          early |-> FALSE]

\* init(): quotaResetTime = time.Now().Add(24 * time.Hour); go processMotorQueue()
Init ==
  /\ now = 0
  /\ totalMotorTime = 0
  /\ quotaResetTime = 0 + QuotaPeriod
  /\ motorQuotaMutex = "free"
  /\ isShutdown = FALSE
  /\ shutdownReason = ""
  /\ shutdownBy = ""
  /\ shutdownAt = ZeroTime
  /\ shutdownMutex = "free"
  /\ motorQueue = << >>
  /\ activations = 0
  /\ hpc = [h \in Handlers |-> "idle"]
  /\ hloc = [h \in Handlers |-> NoLoc]
  /\ ppc = "recv"
  /\ preq = NoReq
  /\ apc = "idle"
  /\ aloc = NoALoc
  /\ motor = NoCmd
  /\ windowSum = 0
  /\ expiredTotal = 0
  /\ running = {}
  /\ sent = 0
  /\ attempts = 0
  /\ adminOps = 0
  /\ spc = "idle"
  /\ sloc = NoSLoc
  /\ statusOps = 0
  /\ users = [e \in Emails |-> NoHash]
  /\ uresp = NoResp
  /\ userOps = 0
  /\ ctx = NoCtx
  /\ mwOps = 0

\* the requests that were sent and are not yet dealt with, oldest first
Pending == IF preq = NoReq THEN motorQueue ELSE << preq >> \o motorQueue
PendingIds == {Pending[i].id : i \in 1..Len(Pending)}

\* windowSum after a quota check that charges d
WindowSumAfter(d) ==
  (IF WindowExpired(now, quotaResetTime) THEN 0 ELSE windowSum) + d

\* expiredTotal after a quota check
ExpiredTotalAfter ==
  IF WindowExpired(now, quotaResetTime) THEN totalMotorTime ELSE expiredTotal

\* the quota rule as a check made now would evaluate it for a duration d
QuotaAdmits(d) ==
  ~QuotaExceeded(ResetTotal(now, quotaResetTime, totalMotorTime), d)

Free(h) == hpc[h] \in {"idle", "done"}

(* ------------------- EnqueueMotorRequest (POST /motor/on) -------------- *)
\* A request arrives and gin runs the handler on a goroutine of its own
\* (the lowest free one: the goroutines are interchangeable).
Begin(h, bodies, uids, max) ==
  /\ Free(h)
  /\ \E i \in 1..Len(HandlerSeq) :
       HandlerSeq[i] = h /\ \A j \in 1..(i - 1) : ~Free(HandlerSeq[j])
  /\ attempts < max
  /\ \E body \in bodies, uid \in uids :
       hloc' = [hloc EXCEPT ![h] = [NoLoc EXCEPT !.id = attempts + 1,
                                                 !.body = body, !.uid = uid,
                                                 !.after = PendingIds]]
  /\ attempts' = attempts + 1
  /\ hpc' = [hpc EXCEPT ![h] = "sd_lock"]
  /\ UNCHANGED << now, totalMotorTime, quotaResetTime, motorQuotaMutex,
                  isShutdown, shutdownReason, shutdownBy, shutdownAt,
                  shutdownMutex, motorQueue, activations, ppc, preq, apc,
                  aloc, motor, windowSum, expiredTotal, running, sent,
                  adminOps, spc, sloc, statusOps, users, uresp, userOps, ctx,
                  mwOps >>

\* shutdownMutex.Lock()
AdmitLockShutdown(h) ==
  /\ hpc[h] = "sd_lock"
  /\ shutdownMutex = "free"
  /\ shutdownMutex' = h
  /\ hpc' = [hpc EXCEPT ![h] = "sd_check"]
  /\ UNCHANGED << now, totalMotorTime, quotaResetTime, motorQuotaMutex,
                  isShutdown, shutdownReason, shutdownBy, shutdownAt,
                  motorQueue, activations, hloc, ppc, preq, apc, aloc, motor,
                  windowSum, expiredTotal, running, sent, attempts, adminOps,
                  spc, sloc, statusOps, users, uresp, userOps, ctx, mwOps >>

\* a gate that binds the body without looking at isShutdown
AdmitIgnoreShutdown(h) ==
  /\ hpc[h] = "sd_check"
  /\ shutdownMutex' = "free"
  /\ IF BindOK(hloc[h].body)
       THEN /\ hpc' = [hpc EXCEPT ![h] = "q_lock"]
            /\ hloc' = [hloc EXCEPT ![h].d = ToDuration(Decoded(hloc[h].body))]
       ELSE /\ hpc' = [hpc EXCEPT ![h] = "done"]
            /\ hloc' = [hloc EXCEPT ![h].code = 400]
  /\ UNCHANGED << now, totalMotorTime, quotaResetTime, motorQuotaMutex,
                  isShutdown, shutdownReason, shutdownBy, shutdownAt,
                  motorQueue, activations, ppc, preq, apc, aloc, motor,
                  windowSum, expiredTotal, running, sent, attempts, adminOps,
                  spc, sloc, statusOps, users, uresp, userOps, ctx, mwOps >>

\* if isShutdown { Unlock; respond 503 } else { Unlock; ShouldBindJSON }
AdmitCheckShutdown(h) ==
  /\ hpc[h] = "sd_check"
  /\ shutdownMutex' = "free"
  /\ IF isShutdown
       THEN /\ hpc' = [hpc EXCEPT ![h] = "sd_read_reason"]
            /\ hloc' = [hloc EXCEPT
                          ![h].late = WindowExpired(now, quotaResetTime)]
       ELSE IF BindOK(hloc[h].body)
         THEN /\ hpc' = [hpc EXCEPT ![h] = "q_lock"]
              /\ hloc' = [hloc EXCEPT ![h].d = ToDuration(Decoded(hloc[h].body))]
         ELSE /\ hpc' = [hpc EXCEPT ![h] = "done"]
              /\ hloc' = [hloc EXCEPT ![h].code = 400]
  /\ UNCHANGED << now, totalMotorTime, quotaResetTime, motorQuotaMutex,
                  isShutdown, shutdownReason, shutdownBy, shutdownAt,
                  motorQueue, activations, ppc, preq, apc, aloc, motor,
                  windowSum, expiredTotal, running, sent, attempts, adminOps,
                  spc, sloc, statusOps, users, uresp, userOps, ctx, mwOps >>

\* The 503 body is built after the Unlock: "reason": shutdownReason
AdmitReadReason(h) ==
  /\ hpc[h] = "sd_read_reason"
  /\ hloc' = [hloc EXCEPT ![h].reason = shutdownReason]
  /\ hpc' = [hpc EXCEPT ![h] = "sd_read_by"]
  /\ UNCHANGED << now, totalMotorTime, quotaResetTime, motorQuotaMutex,
                  isShutdown, shutdownReason, shutdownBy, shutdownAt,
                  shutdownMutex, motorQueue, activations, ppc, preq, apc,
                  aloc, motor, windowSum, expiredTotal, running, sent,
                  attempts, adminOps, spc, sloc, statusOps, users, uresp,
                  userOps, ctx, mwOps >>

\* "shutdown_by": shutdownBy, "shutdown_at": shutdownAt; c.JSON(503, ...)
AdmitReadBy(h) ==
  /\ hpc[h] = "sd_read_by"
  /\ hloc' = [hloc EXCEPT ![h].by = shutdownBy, ![h].at = shutdownAt,
                          ![h].code = 503]
  /\ hpc' = [hpc EXCEPT ![h] = "done"]
  /\ UNCHANGED << now, totalMotorTime, quotaResetTime, motorQuotaMutex,
                  isShutdown, shutdownReason, shutdownBy, shutdownAt,
                  shutdownMutex, motorQueue, activations, ppc, preq, apc,
                  aloc, motor, windowSum, expiredTotal, running, sent,
                  attempts, adminOps, spc, sloc, statusOps, users, uresp,
                  userOps, ctx, mwOps >>

\* motorQuotaMutex.Lock()
AdmitLockQuota(h) ==
  /\ hpc[h] = "q_lock"
  /\ motorQuotaMutex = "free"
  /\ motorQuotaMutex' = h
  /\ hpc' = [hpc EXCEPT ![h] = "q_check"]
  /\ UNCHANGED << now, totalMotorTime, quotaResetTime, isShutdown,
                  shutdownReason, shutdownBy, shutdownAt, shutdownMutex,
                  motorQueue, activations, hloc, ppc, preq, apc, aloc, motor,
                  windowSum, expiredTotal, running, sent, attempts, adminOps,
                  spc, sloc, statusOps, users, uresp, userOps, ctx, mwOps >>

\* an admission whose 429 return leaves motorQuotaMutex locked
AdmitCheckQuotaHeld(h) ==
  /\ hpc[h] = "q_check"
  /\ totalMotorTime' = ResetTotal(now, quotaResetTime, totalMotorTime)
  /\ quotaResetTime' = ResetTime(now, quotaResetTime)
  /\ windowSum' = WindowSumAfter(0)
  /\ expiredTotal' = ExpiredTotalAfter
  /\ IF QuotaExceeded(totalMotorTime', hloc[h].d)
       THEN /\ hpc' = [hpc EXCEPT ![h] = "done"]
            /\ hloc' = [hloc EXCEPT ![h].code = 429]
            /\ motorQuotaMutex' = motorQuotaMutex
       ELSE /\ motorQuotaMutex' = "free"
            /\ IF hloc[h].uid
                 THEN /\ hpc' = [hpc EXCEPT ![h] = "audit"]
                      /\ hloc' = hloc
                 ELSE /\ hpc' = [hpc EXCEPT ![h] = "done"]
                      /\ hloc' = [hloc EXCEPT ![h].code = 401]
  /\ UNCHANGED << now, isShutdown, shutdownReason, shutdownBy, shutdownAt,
                  shutdownMutex, motorQueue, activations, ppc, preq, apc,
                  aloc, motor, running, sent, attempts, adminOps, spc, sloc,
                  statusOps, users, uresp, userOps, ctx, mwOps >>

\* lazy reset; if total + d > quota { Unlock; 429 } else { Unlock };
\* then c.Get("userID"): 401 when the context carries no user id
AdmitCheckQuota(h) ==
  /\ hpc[h] = "q_check"
  /\ totalMotorTime' = ResetTotal(now, quotaResetTime, totalMotorTime)
  /\ quotaResetTime' = ResetTime(now, quotaResetTime)
  /\ windowSum' = WindowSumAfter(0)
  /\ expiredTotal' = ExpiredTotalAfter
  /\ motorQuotaMutex' = "free"
  /\ IF QuotaExceeded(totalMotorTime', hloc[h].d)
       THEN /\ hpc' = [hpc EXCEPT ![h] = "done"]
            /\ hloc' = [hloc EXCEPT ![h].code = 429]
       ELSE IF hloc[h].uid
         THEN /\ hpc' = [hpc EXCEPT ![h] = "audit"]
              /\ hloc' = hloc
         ELSE /\ hpc' = [hpc EXCEPT ![h] = "done"]
              /\ hloc' = [hloc EXCEPT ![h].code = 401]
  /\ UNCHANGED << now, isShutdown, shutdownReason, shutdownBy, shutdownAt,
                  shutdownMutex, motorQueue, activations, ppc, preq, apc,
                  aloc, motor, running, sent, attempts, adminOps, spc, sloc,
                  statusOps, users, uresp, userOps, ctx, mwOps >>

\* a handler that goes on to the enqueue when the audit write has failed
AdmitAuditIgnored(h) ==
  /\ hpc[h] = "audit"
  /\ \/ activations' = activations + 1
     \/ activations' = activations
  /\ hpc' = [hpc EXCEPT ![h] = "send"]
  /\ hloc' = hloc
  /\ UNCHANGED << now, totalMotorTime, quotaResetTime, motorQuotaMutex,
                  isShutdown, shutdownReason, shutdownBy, shutdownAt,
                  shutdownMutex, motorQueue, ppc, preq, apc, aloc, motor,
                  windowSum, expiredTotal, running, sent, attempts, adminOps,
                  spc, sloc, statusOps, users, uresp, userOps, ctx, mwOps >>

\* database.DB.Create(&logEntry): the row is written, or the write fails -> 500
AdmitAudit(h) ==
  /\ hpc[h] = "audit"
  /\ \/ /\ activations' = activations + 1
        /\ hpc' = [hpc EXCEPT ![h] = "send"]
        /\ hloc' = hloc
     \/ /\ activations' = activations
        /\ hpc' = [hpc EXCEPT ![h] = "done"]
        /\ hloc' = [hloc EXCEPT ![h].code = 500]
  /\ UNCHANGED << now, totalMotorTime, quotaResetTime, motorQuotaMutex,
                  isShutdown, shutdownReason, shutdownBy, shutdownAt,
                  shutdownMutex, motorQueue, ppc, preq, apc, aloc, motor,
                  windowSum, expiredTotal, running, sent, attempts, adminOps,
                  spc, sloc, statusOps, users, uresp, userOps, ctx, mwOps >>

\* motorQueue <- &MotorRequest{...}; c.JSON(200, "Request queued")
AdmitSend(h) ==
  /\ hpc[h] = "send"
  /\ CanSend(motorQueue)
  /\ motorQueue' = Send(motorQueue, [id |-> hloc[h].id, d |-> hloc[h].d,
                                     after |-> hloc[h].after])
  /\ sent' = sent + 1
  /\ hpc' = [hpc EXCEPT ![h] = "done"]
  /\ hloc' = [hloc EXCEPT ![h].code = 200]
  /\ UNCHANGED << now, totalMotorTime, quotaResetTime, motorQuotaMutex,
                  isShutdown, shutdownReason, shutdownBy, shutdownAt,
                  shutdownMutex, activations, ppc, preq, apc, aloc, motor,
                  windowSum, expiredTotal, running, attempts, adminOps, spc,
                  sloc, statusOps, users, uresp, userOps, ctx, mwOps >>

\* the handler's steps on the path that finds the system running
AdmitNormal(h) ==
  \/ AdmitLockShutdown(h)
  \/ AdmitCheckShutdown(h)
  \/ AdmitLockQuota(h)
  \/ AdmitCheckQuota(h)
  \/ AdmitAudit(h)
  \/ AdmitSend(h)

\* ... and on the path that finds it shut down
AdmitRejected(h) ==
  \/ AdmitReadReason(h)
  \/ AdmitReadBy(h)

(* -------------------- processMotorQueue (one goroutine) ---------------- *)
\* mqtt.Publish("motor/control", cmd): the error result is not looked at.
\* shut records whether isShutdown held at the moment of the publish.
Publish(cmd, src, ok) ==
  [cmd |-> cmd, src |-> src, shut |-> isShutdown, ok |-> ok]

\* for req := range motorQueue
ProcRecv ==
  /\ ppc = "recv"
  /\ CanRecv(motorQueue)
  /\ preq' = Recv(motorQueue)
  /\ motorQueue' = AfterRecv(motorQueue)
  /\ ppc' = "sd_lock"
  /\ UNCHANGED << now, totalMotorTime, quotaResetTime, motorQuotaMutex,
                  isShutdown, shutdownReason, shutdownBy, shutdownAt,
                  shutdownMutex, activations, hpc, hloc, apc, aloc, motor,
                  windowSum, expiredTotal, running, sent, attempts, adminOps,
                  spc, sloc, statusOps, users, uresp, userOps, ctx, mwOps >>

\* shutdownMutex.Lock()
ProcLockShutdown ==
  /\ ppc = "sd_lock"
  /\ shutdownMutex = "free"
  /\ shutdownMutex' = "proc"
  /\ ppc' = "sd_check"
  /\ UNCHANGED << now, totalMotorTime, quotaResetTime, motorQuotaMutex,
                  isShutdown, shutdownReason, shutdownBy, shutdownAt,
                  motorQueue, activations, hpc, hloc, preq, apc, aloc, motor,
                  windowSum, expiredTotal, running, sent, attempts, adminOps,
                  spc, sloc, statusOps, users, uresp, userOps, ctx, mwOps >>

\* a processor that puts a request it meets during a shutdown back in the queue
ProcDropRequeued ==
  /\ ppc = "sd_check"
  /\ shutdownMutex' = "free"
  /\ IF isShutdown
       THEN /\ ppc' = "recv" /\ preq' = NoReq
            /\ motorQueue' = Append(motorQueue, preq)
       ELSE /\ ppc' = "q_lock" /\ preq' = preq
            /\ motorQueue' = motorQueue
  /\ UNCHANGED << now, totalMotorTime, quotaResetTime, motorQuotaMutex,
                  isShutdown, shutdownReason, shutdownBy, shutdownAt,
                  activations, hpc, hloc, apc, aloc, motor, windowSum,
                  expiredTotal, running, sent, attempts, adminOps, spc, sloc,
                  statusOps, users, uresp, userOps, ctx, mwOps >>

\* a drop that still charges the dropped request to the quota
ProcDropCharged ==
  /\ ppc = "sd_check"
  /\ shutdownMutex' = "free"
  /\ IF isShutdown
       THEN /\ ppc' = "recv" /\ preq' = NoReq
            /\ totalMotorTime' = Charge(totalMotorTime, preq.d)
       ELSE /\ ppc' = "q_lock" /\ preq' = preq
            /\ totalMotorTime' = totalMotorTime
  /\ UNCHANGED << now, quotaResetTime, motorQuotaMutex, isShutdown,
                  shutdownReason, shutdownBy, shutdownAt, motorQueue,
                  activations, hpc, hloc, apc, aloc, motor, windowSum,
                  expiredTotal, running, sent, attempts, adminOps, spc, sloc,
                  statusOps, users, uresp, userOps, ctx, mwOps >>

\* if isShutdown { Unlock; continue }; Unlock
ProcCheckShutdown ==
  /\ ppc = "sd_check"
  /\ shutdownMutex' = "free"
  /\ IF isShutdown
       THEN ppc' = "recv" /\ preq' = NoReq
       ELSE ppc' = "q_lock" /\ preq' = preq
  /\ UNCHANGED << now, totalMotorTime, quotaResetTime, motorQuotaMutex,
                  isShutdown, shutdownReason, shutdownBy, shutdownAt,
                  motorQueue, activations, hpc, hloc, apc, aloc, motor,
                  windowSum, expiredTotal, running, sent, attempts, adminOps,
                  spc, sloc, statusOps, users, uresp, userOps, ctx, mwOps >>

\* motorQuotaMutex.Lock()
ProcLockQuota ==
  /\ ppc = "q_lock"
  /\ motorQuotaMutex = "free"
  /\ motorQuotaMutex' = "proc"
  /\ ppc' = "q_check"
  /\ UNCHANGED << now, totalMotorTime, quotaResetTime, isShutdown,
                  shutdownReason, shutdownBy, shutdownAt, shutdownMutex,
                  motorQueue, activations, hpc, hloc, preq, apc, aloc, motor,
                  windowSum, expiredTotal, running, sent, attempts, adminOps,
                  spc, sloc, statusOps, users, uresp, userOps, ctx, mwOps >>

\* a processor that keeps the quota lock when it goes on to run the motor
ProcCheckQuotaLocked ==
  /\ ppc = "q_check"
  /\ quotaResetTime' = ResetTime(now, quotaResetTime)
  /\ expiredTotal' = ExpiredTotalAfter
  /\ LET total == ResetTotal(now, quotaResetTime, totalMotorTime) IN
       IF QuotaExceeded(total, preq.d)
         THEN /\ totalMotorTime' = total
              /\ windowSum' = WindowSumAfter(0)
              /\ motorQuotaMutex' = "free"
              /\ ppc' = "recv"
              /\ preq' = NoReq
         ELSE /\ totalMotorTime' = Charge(total, preq.d)
              /\ windowSum' = WindowSumAfter(preq.d)
              /\ motorQuotaMutex' = "proc"
              /\ ppc' = "on"
              /\ preq' = preq
  /\ UNCHANGED << now, isShutdown, shutdownReason, shutdownBy, shutdownAt,
                  shutdownMutex, motorQueue, activations, hpc, hloc, apc,
                  aloc, motor, running, sent, attempts, adminOps, spc, sloc,
                  statusOps, users, uresp, userOps, ctx, mwOps >>

\* lazy reset; if total + d > quota { Unlock; continue }; total += d; Unlock
ProcCheckQuota ==
  /\ ppc = "q_check"
  /\ quotaResetTime' = ResetTime(now, quotaResetTime)
  /\ expiredTotal' = ExpiredTotalAfter
  /\ motorQuotaMutex' = "free"
  /\ LET total == ResetTotal(now, quotaResetTime, totalMotorTime) IN
       IF QuotaExceeded(total, preq.d)
         THEN /\ totalMotorTime' = total
              /\ windowSum' = WindowSumAfter(0)
              /\ ppc' = "recv"
              /\ preq' = NoReq
         ELSE /\ totalMotorTime' = Charge(total, preq.d)
              /\ windowSum' = WindowSumAfter(preq.d)
              /\ ppc' = "on"
              /\ preq' = preq
  /\ UNCHANGED << now, isShutdown, shutdownReason, shutdownBy, shutdownAt,
                  shutdownMutex, motorQueue, activations, hpc, hloc, apc,
                  aloc, motor, running, sent, attempts, adminOps, spc, sloc,
                  statusOps, users, uresp, userOps, ctx, mwOps >>

\* a processor that returns when the "on" publish fails
ProcOnFailStops ==
  /\ ppc = "on"
  /\ \E ok \in BOOLEAN :
       /\ motor' = Publish("on", "proc", ok)
       /\ IF ok THEN /\ ppc' = "sleep"
                     /\ running' = running \cup {preq.id}
                ELSE /\ ppc' = "stopped"
                     /\ running' = running
  /\ UNCHANGED << now, totalMotorTime, quotaResetTime, motorQuotaMutex,
                  isShutdown, shutdownReason, shutdownBy, shutdownAt,
                  shutdownMutex, motorQueue, activations, hpc, hloc, preq,
                  apc, aloc, windowSum, expiredTotal, sent, attempts,
                  adminOps, spc, sloc, statusOps, users, uresp, userOps, ctx,
                  mwOps >>

\* a processor that publishes "on" and takes the next request at once
ProcOnNoWait ==
  /\ ppc = "on"
  /\ \E ok \in BOOLEAN : motor' = Publish("on", "proc", ok)
  /\ running' = running \cup {preq.id}
  /\ ppc' = "recv"
  /\ UNCHANGED << now, totalMotorTime, quotaResetTime, motorQuotaMutex,
                  isShutdown, shutdownReason, shutdownBy, shutdownAt,
                  shutdownMutex, motorQueue, activations, hpc, hloc, preq,
                  apc, aloc, windowSum, expiredTotal, sent, attempts,
                  adminOps, spc, sloc, statusOps, users, uresp, userOps, ctx,
                  mwOps >>

\* mqtt.Publish("motor/control", "on")
ProcOn ==
  /\ ppc = "on"
  /\ \E ok \in BOOLEAN : motor' = Publish("on", "proc", ok)
  /\ running' = running \cup {preq.id}
  /\ ppc' = "sleep"
  /\ UNCHANGED << now, totalMotorTime, quotaResetTime, motorQuotaMutex,
                  isShutdown, shutdownReason, shutdownBy, shutdownAt,
                  shutdownMutex, motorQueue, activations, hpc, hloc, preq,
                  apc, aloc, windowSum, expiredTotal, sent, attempts,
                  adminOps, spc, sloc, statusOps, users, uresp, userOps, ctx,
                  mwOps >>

\* time.Sleep(req.Duration): returns at some later point; the other
\* goroutines and the clock run meanwhile
ProcSleep ==
  /\ ppc = "sleep"
  /\ ppc' = "off"
  /\ UNCHANGED << now, totalMotorTime, quotaResetTime, motorQuotaMutex,
                  isShutdown, shutdownReason, shutdownBy, shutdownAt,
                  shutdownMutex, motorQueue, activations, hpc, hloc, preq,
                  apc, aloc, motor, windowSum, expiredTotal, running, sent,
                  attempts, adminOps, spc, sloc, statusOps, users, uresp,
                  userOps, ctx, mwOps >>

\* mqtt.Publish("motor/control", "off"); next iteration
ProcOff ==
  /\ ppc = "off"
  /\ \E ok \in BOOLEAN : motor' = Publish("off", "proc", ok)
  /\ running' = running \ {preq.id}
  /\ ppc' = "recv"
  /\ preq' = NoReq
  /\ UNCHANGED << now, totalMotorTime, quotaResetTime, motorQuotaMutex,
                  isShutdown, shutdownReason, shutdownBy, shutdownAt,
                  shutdownMutex, motorQueue, activations, hpc, hloc, apc,
                  aloc, windowSum, expiredTotal, sent, attempts, adminOps,
                  spc, sloc, statusOps, users, uresp, userOps, ctx, mwOps >>

Processor ==
  \/ ProcRecv
  \/ ProcLockShutdown
  \/ ProcCheckShutdown
  \/ ProcLockQuota
  \/ ProcCheckQuota
  \/ ProcOn
  \/ ProcSleep
  \/ ProcOff

(* ------------------ AdminForceShutdown / AdminRestart ------------------ *)
\* POST /admin/shutdown arrives.  ShouldBindJSON: reason is required (400);
\* c.Get("user_id") and database.DB.First: 401 when there is no such user.
BeginShutdown ==
  /\ apc \in {"idle", "done"}
  /\ adminOps < MaxAdminOps
  /\ adminOps' = adminOps + 1
  /\ \E in \in ShutdownInputs :
       IF in.reason = ""
         THEN /\ aloc' = [NoALoc EXCEPT !.op = "shutdown", !.code = 400]
              /\ apc' = "done"
         ELSE IF in.user = NoUser
           THEN /\ aloc' = [NoALoc EXCEPT !.op = "shutdown", !.code = 401]
                /\ apc' = "done"
           ELSE /\ aloc' = [NoALoc EXCEPT !.op = "shutdown",
                                          !.reason = in.reason, !.user = in.user]
                /\ apc' = "f_lock"
  /\ UNCHANGED << now, totalMotorTime, quotaResetTime, motorQuotaMutex,
                  isShutdown, shutdownReason, shutdownBy, shutdownAt,
                  shutdownMutex, motorQueue, activations, hpc, hloc, ppc,
                  preq, motor, windowSum, expiredTotal, running, sent,
                  attempts, spc, sloc, statusOps, users, uresp, userOps, ctx,
                  mwOps >>

\* shutdownMutex.Lock()
ShutdownLock ==
  /\ apc = "f_lock"
  /\ shutdownMutex = "free"
  /\ shutdownMutex' = "admin"
  /\ apc' = "f_set"
  /\ UNCHANGED << now, totalMotorTime, quotaResetTime, motorQuotaMutex,
                  isShutdown, shutdownReason, shutdownBy, shutdownAt,
                  motorQueue, activations, hpc, hloc, ppc, preq, aloc, motor,
                  windowSum, expiredTotal, running, sent, attempts, adminOps,
                  spc, sloc, statusOps, users, uresp, userOps, ctx, mwOps >>

\* a forceShutdown that keeps the metadata of a shutdown already standing
ShutdownSetOnce ==
  /\ apc = "f_set"
  /\ isShutdown' = TRUE
  /\ shutdownReason' = IF isShutdown THEN shutdownReason ELSE aloc.reason
  /\ shutdownBy' = IF isShutdown THEN shutdownBy ELSE aloc.user
  /\ shutdownAt' = IF isShutdown THEN shutdownAt ELSE now
  /\ shutdownMutex' = "free"
  /\ apc' = "f_pub"
  /\ UNCHANGED << now, totalMotorTime, quotaResetTime, motorQuotaMutex,
                  motorQueue, activations, hpc, hloc, ppc, preq, aloc, motor,
                  windowSum, expiredTotal, running, sent, attempts, adminOps,
                  spc, sloc, statusOps, users, uresp, userOps, ctx, mwOps >>

\* isShutdown = true; reason, by, at = ...; Unlock
ShutdownSet ==
  /\ apc = "f_set"
  /\ isShutdown' = TRUE
  /\ shutdownReason' = aloc.reason
  /\ shutdownBy' = aloc.user
  /\ shutdownAt' = now
  /\ shutdownMutex' = "free"
  /\ apc' = "f_pub"
  /\ UNCHANGED << now, totalMotorTime, quotaResetTime, motorQuotaMutex,
                  motorQueue, activations, hpc, hloc, ppc, preq, aloc, motor,
                  windowSum, expiredTotal, running, sent, attempts, adminOps,
                  spc, sloc, statusOps, users, uresp, userOps, ctx, mwOps >>

\* mqtt.Publish("motor/control", "off")
ShutdownPublish ==
  /\ apc = "f_pub"
  /\ \E ok \in BOOLEAN : motor' = Publish("off", "admin", ok)
  /\ apc' = "f_resp"
  /\ UNCHANGED << now, totalMotorTime, quotaResetTime, motorQuotaMutex,
                  isShutdown, shutdownReason, shutdownBy, shutdownAt,
                  shutdownMutex, motorQueue, activations, hpc, hloc, ppc,
                  preq, aloc, windowSum, expiredTotal, running, sent,
                  attempts, adminOps, spc, sloc, statusOps, users, uresp,
                  userOps, ctx, mwOps >>

\* c.JSON(200, {reason: shutdownReason, shutdown_by: shutdownBy, ...}):
\* the globals are read again, without the lock
ShutdownRespond ==
  /\ apc = "f_resp"
  /\ aloc' = [aloc EXCEPT !.code = 200, !.rreason = shutdownReason,
                          !.rby = shutdownBy, !.rat = shutdownAt]
  /\ apc' = "done"
  /\ UNCHANGED << now, totalMotorTime, quotaResetTime, motorQuotaMutex,
                  isShutdown, shutdownReason, shutdownBy, shutdownAt,
                  shutdownMutex, motorQueue, activations, hpc, hloc, ppc,
                  preq, motor, windowSum, expiredTotal, running, sent,
                  attempts, adminOps, spc, sloc, statusOps, users, uresp,
                  userOps, ctx, mwOps >>

\* POST /admin/restart arrives
BeginRestart ==
  /\ apc \in {"idle", "done"}
  /\ adminOps < MaxAdminOps
  /\ adminOps' = adminOps + 1
  /\ aloc' = [NoALoc EXCEPT !.op = "restart"]
  /\ apc' = "r_lock"
  /\ UNCHANGED << now, totalMotorTime, quotaResetTime, motorQuotaMutex,
                  isShutdown, shutdownReason, shutdownBy, shutdownAt,
                  shutdownMutex, motorQueue, activations, hpc, hloc, ppc,
                  preq, motor, windowSum, expiredTotal, running, sent,
                  attempts, spc, sloc, statusOps, users, uresp, userOps, ctx,
                  mwOps >>

\* shutdownMutex.Lock()
RestartLock ==
  /\ apc = "r_lock"
  /\ shutdownMutex = "free"
  /\ shutdownMutex' = "admin"
  /\ apc' = "r_clear"
  /\ UNCHANGED << now, totalMotorTime, quotaResetTime, motorQuotaMutex,
                  isShutdown, shutdownReason, shutdownBy, shutdownAt,
                  motorQueue, activations, hpc, hloc, ppc, preq, aloc, motor,
                  windowSum, expiredTotal, running, sent, attempts, adminOps,
                  spc, sloc, statusOps, users, uresp, userOps, ctx, mwOps >>

\* a restart that starts afresh: the queue is emptied and the usage refunded
RestartFlushes ==
  /\ apc = "r_clear"
  /\ isShutdown' = FALSE
  /\ shutdownReason' = ""
  /\ shutdownBy' = ""
  /\ shutdownAt' = ZeroTime
  /\ shutdownMutex' = "free"
  /\ motorQueue' = << >>
  /\ totalMotorTime' = 0
  /\ aloc' = [aloc EXCEPT !.code = 200]
  /\ apc' = "done"
  /\ UNCHANGED << now, quotaResetTime, motorQuotaMutex, activations, hpc,
                  hloc, ppc, preq, motor, windowSum, expiredTotal, running,
                  sent, attempts, adminOps, spc, sloc, statusOps, users,
                  uresp, userOps, ctx, mwOps >>

\* a restart that forgets to clear the initiator
RestartKeepsBy ==
  /\ apc = "r_clear"
  /\ isShutdown' = FALSE
  /\ shutdownReason' = ""
  /\ shutdownAt' = ZeroTime
  /\ shutdownMutex' = "free"
  /\ aloc' = [aloc EXCEPT !.code = 200]
  /\ apc' = "done"
  /\ UNCHANGED << now, totalMotorTime, quotaResetTime, motorQuotaMutex,
                  shutdownBy, motorQueue, activations, hpc, hloc, ppc, preq,
                  motor, windowSum, expiredTotal, running, sent, attempts,
                  adminOps, spc, sloc, statusOps, users, uresp, userOps, ctx,
                  mwOps >>

\* isShutdown = false; reason, by = ""; at = time.Time{}; Unlock; c.JSON(200)
RestartClear ==
  /\ apc = "r_clear"
  /\ isShutdown' = FALSE
  /\ shutdownReason' = ""
  /\ shutdownBy' = ""
  /\ shutdownAt' = ZeroTime
  /\ shutdownMutex' = "free"
  /\ aloc' = [aloc EXCEPT !.code = 200]
  /\ apc' = "done"
  /\ UNCHANGED << now, totalMotorTime, quotaResetTime, motorQuotaMutex,
                  motorQueue, activations, hpc, hloc, ppc, preq, motor,
                  windowSum, expiredTotal, running, sent, attempts, adminOps,
                  spc, sloc, statusOps, users, uresp, userOps, ctx, mwOps >>

Admin ==
  \/ BeginShutdown
  \/ ShutdownLock
  \/ ShutdownSet
  \/ ShutdownPublish
  \/ ShutdownRespond
  \/ BeginRestart
  \/ RestartLock
  \/ RestartClear

(* --------------------------- GetSystemStatus --------------------------- *)
\* GET /motor/status arrives
StatusBegin ==
  /\ spc \in {"idle", "done"}
  /\ statusOps < MaxStatus
  /\ statusOps' = statusOps + 1
  /\ sloc' = NoSLoc
  /\ spc' = "s_lock"
  /\ UNCHANGED << now, totalMotorTime, quotaResetTime, motorQuotaMutex,
                  isShutdown, shutdownReason, shutdownBy, shutdownAt,
                  shutdownMutex, motorQueue, activations, hpc, hloc, ppc,
                  preq, apc, aloc, motor, windowSum, expiredTotal, running,
                  sent, attempts, adminOps, users, uresp, userOps, ctx,
                  mwOps >>

\* shutdownMutex.Lock()
StatusLockShutdown ==
  /\ spc = "s_lock"
  /\ shutdownMutex = "free"
  /\ shutdownMutex' = "status"
  /\ spc' = "s_read"
  /\ UNCHANGED << now, totalMotorTime, quotaResetTime, motorQuotaMutex,
                  isShutdown, shutdownReason, shutdownBy, shutdownAt,
                  motorQueue, activations, hpc, hloc, ppc, preq, apc, aloc,
                  motor, windowSum, expiredTotal, running, sent, attempts,
                  adminOps, sloc, statusOps, users, uresp, userOps, ctx,
                  mwOps >>

\* shutdownStatus := gin.H{is_shutdown, reason, shutdown_by, shutdown_at}; Unlock
StatusReadShutdown ==
  /\ spc = "s_read"
  /\ sloc' = [sloc EXCEPT !.is_shutdown = isShutdown, !.reason = shutdownReason,
                          !.by = shutdownBy, !.at = shutdownAt]
  /\ shutdownMutex' = "free"
  /\ spc' = "q_lock"
  /\ UNCHANGED << now, totalMotorTime, quotaResetTime, motorQuotaMutex,
                  isShutdown, shutdownReason, shutdownBy, shutdownAt,
                  motorQueue, activations, hpc, hloc, ppc, preq, apc, aloc,
                  motor, windowSum, expiredTotal, running, sent, attempts,
                  adminOps, statusOps, users, uresp, userOps, ctx, mwOps >>

\* motorQuotaMutex.Lock()
StatusLockQuota ==
  /\ spc = "q_lock"
  /\ motorQuotaMutex = "free"
  /\ motorQuotaMutex' = "status"
  /\ spc' = "q_read"
  /\ UNCHANGED << now, totalMotorTime, quotaResetTime, isShutdown,
                  shutdownReason, shutdownBy, shutdownAt, shutdownMutex,
                  motorQueue, activations, hpc, hloc, ppc, preq, apc, aloc,
                  motor, windowSum, expiredTotal, running, sent, attempts,
                  adminOps, sloc, statusOps, users, uresp, userOps, ctx,
                  mwOps >>

\* a status that applies the lazy window reset before it reports
StatusReadQuotaReset ==
  /\ spc = "q_read"
  /\ totalMotorTime' = ResetTotal(now, quotaResetTime, totalMotorTime)
  /\ quotaResetTime' = ResetTime(now, quotaResetTime)
  /\ sloc' = [sloc EXCEPT !.total = totalMotorTime', !.reset = quotaResetTime',
                          !.qlen = Len(motorQueue), !.code = 200]
  /\ motorQuotaMutex' = "free"
  /\ spc' = "done"
  /\ UNCHANGED << now, isShutdown, shutdownReason, shutdownBy, shutdownAt,
                  shutdownMutex, motorQueue, activations, hpc, hloc, ppc,
                  preq, apc, aloc, motor, windowSum, expiredTotal, running,
                  sent, attempts, adminOps, statusOps, users, uresp, userOps,
                  ctx, mwOps >>

\* quotaStatus := gin.H{total_motor_time, quota_limit, quota_reset_time,
\* queue_length: len(motorQueue)}; Unlock; c.JSON(200, ...)
StatusReadQuota ==
  /\ spc = "q_read"
  /\ sloc' = [sloc EXCEPT !.total = totalMotorTime, !.reset = quotaResetTime,
                          !.qlen = Len(motorQueue), !.code = 200]
  /\ motorQuotaMutex' = "free"
  /\ spc' = "done"
  /\ UNCHANGED << now, totalMotorTime, quotaResetTime, isShutdown,
                  shutdownReason, shutdownBy, shutdownAt, shutdownMutex,
                  motorQueue, activations, hpc, hloc, ppc, preq, apc, aloc,
                  motor, windowSum, expiredTotal, running, sent, attempts,
                  adminOps, statusOps, users, uresp, userOps, ctx, mwOps >>

Status ==
  \/ StatusBegin
  \/ StatusLockShutdown
  \/ StatusReadShutdown
  \/ StatusLockQuota
  \/ StatusReadQuota

(* ------------------------- Auth / Admin middleware --------------------- *)
\* c.AbortWithStatusJSON(code, ...): the remaining handlers are cancelled;
\* the status goes out unless a response was written before
AbortWith(c, code) ==
  [c EXCEPT !.aborted = TRUE, !.code = IF c.code = 0 THEN code ELSE c.code]

\* the handler behind the middleware: it runs and answers 200
RunHandler(c) ==
  [c EXCEPT !.ran = c.ran + 1, !.early = c.early \/ ~c.passed,
            !.code = IF c.code = 0 THEN 200 ELSE c.code]

\* a request arrives; the engine calls the first handler of the chain,
\* AdminMiddleware, whose first statement is AuthMiddleware()(c)
MwBegin ==
  /\ mwOps < MaxMwOps
  /\ ctx.pc \in {"idle", "done"}
  /\ mwOps' = mwOps + 1
  /\ \E hd \in {"none", "bad", "ok"}, cl \in {"none", "string", "number"},
        u \in {"none", "user", "admin"} :
       ctx' = [NoCtx EXCEPT !.pc = "auth", !.header = hd, !.claim = cl,
                            !.user = u, !.index = 0]
  /\ UNCHANGED << now, totalMotorTime, quotaResetTime, motorQuotaMutex,
                  isShutdown, shutdownReason, shutdownBy, shutdownAt,
                  shutdownMutex, motorQueue, activations, hpc, hloc, ppc,
                  preq, apc, aloc, motor, windowSum, expiredTotal, running,
                  sent, attempts, adminOps, spc, sloc, statusOps, users,
                  uresp, userOps >>

\* AuthMiddleware: 401 and abort on a missing or invalid token; otherwise
\* the user_id claim, if any, is stored and c.Next() is called
MwAuth ==
  /\ ctx.pc = "auth"
  /\ ctx' = IF ctx.header # "ok"
              THEN [AbortWith(ctx, 401) EXCEPT !.pc = "admin"]
              ELSE [ctx EXCEPT !.user_id = (ctx.claim # "none"),
                               !.index = ctx.index + 1,
                               !.pc = "next", !.ret = "admin"]
  /\ UNCHANGED << now, totalMotorTime, quotaResetTime, motorQuotaMutex,
                  isShutdown, shutdownReason, shutdownBy, shutdownAt,
                  shutdownMutex, motorQueue, activations, hpc, hloc, ppc,
                  preq, apc, aloc, motor, windowSum, expiredTotal, running,
                  sent, attempts, adminOps, spc, sloc, statusOps, users,
                  uresp, userOps, mwOps >>

\* c.Next(): the handlers from c.index on are run, one after the other,
\* until the chain ends or the request is aborted; then Next returns
MwNext ==
  /\ ctx.pc = "next"
  /\ ctx' = IF ~ctx.aborted /\ ctx.index < Len(Chain)
              THEN [RunHandler(ctx) EXCEPT !.index = ctx.index + 1]
              ELSE [ctx EXCEPT !.pc = ctx.ret]
  /\ UNCHANGED << now, totalMotorTime, quotaResetTime, motorQuotaMutex,
                  isShutdown, shutdownReason, shutdownBy, shutdownAt,
                  shutdownMutex, motorQueue, activations, hpc, hloc, ppc,
                  preq, apc, aloc, motor, windowSum, expiredTotal, running,
                  sent, attempts, adminOps, spc, sloc, statusOps, users,
                  uresp, userOps, mwOps >>

\* AdminMiddleware after AuthMiddleware()(c) has returned
MwAdmin ==
  /\ ctx.pc = "admin"
  /\ ctx' = IF ctx.aborted THEN [ctx EXCEPT !.pc = "engine"]
            ELSE IF ~ctx.user_id \/ ctx.claim # "number" \/ ctx.user = "none"
              THEN [AbortWith(ctx, 401) EXCEPT !.pc = "engine"]
            ELSE IF ctx.user # "admin"
              THEN [AbortWith(ctx, 403) EXCEPT !.pc = "engine"]
            ELSE [ctx EXCEPT !.passed = TRUE, !.index = ctx.index + 1,
                             !.pc = "next", !.ret = "engine"]
  /\ UNCHANGED << now, totalMotorTime, quotaResetTime, motorQuotaMutex,
                  isShutdown, shutdownReason, shutdownBy, shutdownAt,
                  shutdownMutex, motorQueue, activations, hpc, hloc, ppc,
                  preq, apc, aloc, motor, windowSum, expiredTotal, running,
                  sent, attempts, adminOps, spc, sloc, statusOps, users,
                  uresp, userOps, mwOps >>

\* AdminMiddleware has returned to the engine, which goes on with the chain
MwEngine ==
  /\ ctx.pc = "engine"
  /\ ctx' = [ctx EXCEPT !.index = ctx.index + 1, !.pc = "next",
                        !.ret = "done"]
  /\ UNCHANGED << now, totalMotorTime, quotaResetTime, motorQuotaMutex,
                  isShutdown, shutdownReason, shutdownBy, shutdownAt,
                  shutdownMutex, motorQueue, activations, hpc, hloc, ppc,
                  preq, apc, aloc, motor, windowSum, expiredTotal, running,
                  sent, attempts, adminOps, spc, sloc, statusOps, users,
                  uresp, userOps, mwOps >>

(* --------------------------- Register / Login -------------------------- *)
\* POST /register: 400 on a missing field, 400 when DB.Create fails (the
\* e-mail is unique), 200 otherwise
Register ==
  /\ userOps < MaxUserOps
  /\ userOps' = userOps + 1
  /\ \E e \in Emails \cup {""}, p \in Passwords :
       IF e = "" \/ p = "" \/ users[e] # NoHash
         THEN /\ users' = users
              /\ uresp' = [op |-> "register", email |-> e, password |-> p,
                           code |-> 400, token |-> FALSE]
         ELSE /\ users' = [users EXCEPT ![e] = Hash(p)]
              /\ uresp' = [op |-> "register", email |-> e, password |-> p,
                           code |-> 200, token |-> FALSE]
  /\ UNCHANGED << now, totalMotorTime, quotaResetTime, motorQuotaMutex,
                  isShutdown, shutdownReason, shutdownBy, shutdownAt,
                  shutdownMutex, motorQueue, activations, hpc, hloc, ppc,
                  preq, apc, aloc, motor, windowSum, expiredTotal, running,
                  sent, attempts, adminOps, spc, sloc, statusOps, ctx,
                  mwOps >>

\* POST /login: 400 on a missing field, 401 when the lookup fails or the
\* password does not match the hash, 200 with a token otherwise
Login ==
  /\ userOps < MaxUserOps
  /\ userOps' = userOps + 1
  /\ \E e \in Emails \cup {""}, p \in Passwords :
       LET found == FindUser(users, "username", e)
           code == IF e = "" \/ p = "" THEN 400
                   ELSE IF found.err THEN 401
                   ELSE IF ~HashMatches(found.hash, p) THEN 401
                   ELSE 200
       IN uresp' = [op |-> "login", email |-> e, password |-> p,
                    code |-> code, token |-> (code = 200)]
  /\ UNCHANGED << now, totalMotorTime, quotaResetTime, motorQuotaMutex,
                  isShutdown, shutdownReason, shutdownBy, shutdownAt,
                  shutdownMutex, motorQueue, activations, hpc, hloc, ppc,
                  preq, apc, aloc, motor, windowSum, expiredTotal, running,
                  sent, attempts, adminOps, spc, sloc, statusOps, users, ctx,
                  mwOps >>

(* ------------------------------- clock --------------------------------- *)
\* Time passes between any two steps; one step of the clock is one quota
\* period, so that the instants before, at and after quotaResetTime occur.
Tick ==
  /\ now + QuotaPeriod <= MaxTime
  /\ now' = now + QuotaPeriod
  /\ UNCHANGED << totalMotorTime, quotaResetTime, motorQuotaMutex,
                  isShutdown, shutdownReason, shutdownBy, shutdownAt,
                  shutdownMutex, motorQueue, activations, hpc, hloc, ppc,
                  preq, apc, aloc, motor, windowSum, expiredTotal, running,
                  sent, attempts, adminOps, spc, sloc, statusOps, users,
                  uresp, userOps, ctx, mwOps >>

(* --------------------------- specifications --------------------------- *)
\* The whole system: admissions of well-formed requests, one at a time,
\* the processor, the admin handlers and the clock.
PlainBodies == [has : {TRUE}, duration : {2}]
Next ==
  \/ Begin("h1", PlainBodies, {TRUE}, MaxAttempts)
  \/ AdmitNormal("h1")
  \/ AdmitRejected("h1")
  \/ Processor
  \/ Admin
  \/ Tick

Spec == Init /\ [][Next]_vars

\* Quota accounting: concurrent admissions of every request body, no admin
\* request.
NextQuota ==
  \/ \E h \in Handlers : Begin(h, Bodies, {TRUE}, MaxAttempts)
  \/ \E h \in Handlers : AdmitNormal(h)
  \/ Processor
  \/ Tick

SpecQuota == Init /\ [][NextQuota]_vars

\* The queue: concurrent admissions of requests of one duration, with or
\* without a user id in the context; no admin request, no clock.
UnitBodies == [has : {TRUE}, duration : {1}]
NextQueue ==
  \/ \E h \in Handlers : Begin(h, UnitBodies, BOOLEAN, QueueAttempts)
  \/ \E h \in Handlers : AdmitNormal(h)
  \/ Processor

SpecQueue == Init /\ [][NextQueue]_vars

\* Progress: one handler admits requests of one duration, the processor
\* goroutine and the handler's goroutine are scheduled fairly (a goroutine
\* that can take a step is not left waiting forever).
NextLive ==
  \/ Begin("h1", UnitBodies, {TRUE}, LiveAttempts)
  \/ AdmitNormal("h1")
  \/ Processor

SpecLive ==
  /\ Init /\ [][NextLive]_vars
  /\ WF_vars(Processor)
  /\ WF_vars(AdmitNormal("h1"))

\* Requests to a route guarded by AdminMiddleware, one at a time.
NextMw ==
  \/ MwBegin
  \/ MwAuth
  \/ MwNext
  \/ MwAdmin
  \/ MwEngine

SpecMw == Init /\ [][NextMw]_vars

\* The two locks: admissions, the processor, a forceShutdown by one
\* operator and status requests contend for shutdownMutex and
\* motorQuotaMutex. Every goroutine that has started on a request is
\* scheduled fairly; requests need not come.
NextLocks ==
  \/ Begin("h1", PlainBodies, {TRUE}, LockAttempts)
  \/ AdmitNormal("h1")
  \/ AdmitRejected("h1")
  \/ Processor
  \/ /\ adminOps < StatusAdminOps
     /\ BeginShutdown
     /\ aloc'.reason = "maintenance" /\ apc' = "f_lock"
  \/ ShutdownLock \/ ShutdownSet \/ ShutdownPublish \/ ShutdownRespond
  \/ Status

SpecLocks ==
  /\ Init /\ [][NextLocks]_vars
  /\ WF_vars(Processor)
  /\ WF_vars(AdmitNormal("h1") \/ AdmitRejected("h1"))
  /\ WF_vars(ShutdownLock \/ ShutdownSet \/ ShutdownPublish
               \/ ShutdownRespond)
  /\ WF_vars(StatusLockShutdown \/ StatusReadShutdown \/ StatusLockQuota
               \/ StatusReadQuota)

\* Status requests next to an admission, the processor, the clock and the
\* admin handlers, the latter called by one operator with one reason.
NextStatus ==
  \/ Begin("h1", PlainBodies, {TRUE}, StatusAttempts)
  \/ AdmitNormal("h1")
  \/ AdmitRejected("h1")
  \/ Processor
  \/ /\ adminOps < StatusAdminOps
     /\ BeginShutdown \/ BeginRestart
     /\ aloc'.reason \in {"", "maintenance"}
  \/ ShutdownLock
  \/ ShutdownSet
  \/ ShutdownPublish
  \/ ShutdownRespond
  \/ RestartLock
  \/ RestartClear
  \/ Status
  \/ Tick

SpecStatus == Init /\ [][NextStatus]_vars

\* The user handlers on their own.
NextUsers ==
  \/ Register
  \/ Login

SpecUsers == Init /\ [][NextUsers]_vars

(* ============================== claims ================================= *)
StepOf(h) == hpc'[h] # hpc[h]
Answered(h, code) == hpc[h] = "done" /\ hloc[h].code = code

C2_WindowWithinQuota ==
  windowSum <= motorQuota /\ totalMotorTime <= motorQuota

\* C3: an admission that finds a + d <= limit (a taken after the lazy reset)
\* is accepted and leaves the quota check with totalMotorTime = a + d.
C3_AdmissionReserves ==
  [][\A h \in Handlers :
       LET a == ResetTotal(now, quotaResetTime, totalMotorTime) IN
       (hpc[h] = "q_check" /\ StepOf(h) /\ a + hloc[h].d <= motorQuota)
         => /\ ~(hpc'[h] = "done" /\ hloc'[h].code = 429)
            /\ totalMotorTime' = a + hloc[h].d]_vars

\* C4: an admission that finds a + d > limit in an unexpired window is
\* answered 429; nothing is enqueued, no audit row is written, totalMotorTime
\* and quotaResetTime stay as they are.
C4_OverQuotaRejected ==
  [][\A h \in Handlers :
       (/\ hpc[h] = "q_check" /\ StepOf(h)
        /\ ~WindowExpired(now, quotaResetTime)
        /\ totalMotorTime + hloc[h].d > motorQuota)
         => /\ hpc'[h] = "done" /\ hloc'[h].code = 429
            /\ UNCHANGED << totalMotorTime, quotaResetTime, motorQueue,
                            activations >>]_vars

\* C5: of two admissions made one after the other in the first window, from
\* zero usage, with d1 <= limit and d1 + d2 > limit, the second is rejected,
\* wherever the first one is by then (queued, or in the processor's hands).
C5_SecondRejected ==
  \A h \in Handlers : \A i \in 1..Len(Pending) :
    (/\ now = 0
     /\ hloc[h].id = 2 /\ Pending[i].id = 1 /\ 1 \in hloc[h].after
     /\ Pending[i].d > 0 /\ Pending[i].d <= motorQuota /\ hloc[h].d > 0
     /\ Pending[i].d + hloc[h].d > motorQuota
     /\ hpc[h] \in {"audit", "send", "done"})
      => Answered(h, 429)

\* C6: an admission whose shutdown check finds isShutdown set is answered 503
\* and goes nowhere else: no lazy reset of the quota window (even an expired
\* one), nothing enqueued, no audit row.
C6_ShutdownShortCircuits ==
  [][\A h \in Handlers :
       (/\ \/ hpc[h] = "sd_check" /\ isShutdown
           \/ hpc[h] \in {"sd_read_reason", "sd_read_by"}
        /\ StepOf(h))
         => /\ UNCHANGED << totalMotorTime, quotaResetTime, motorQueue,
                            activations, windowSum >>
            /\ hpc'[h] \in {"sd_read_reason", "sd_read_by", "done"}
            /\ hpc'[h] = "done" => hloc'[h].code = 503]_vars

\* a 503 was given by a shutdown check made after the window had expired,
\* and the usage of that window is still standing
C6_Witness ==
  \E h \in Handlers :
    /\ Answered(h, 503)
    /\ hloc[h].late
    /\ WindowExpired(now, quotaResetTime)
    /\ totalMotorTime > 0

\* C7: an admission that reaches the enqueue while the queue is full is not
\* held there: the send can always be taken.
C7_SendNeverBlocks ==
  \A h \in Handlers : hpc[h] = "send" => CanSend(motorQueue)

\* C8: the processor takes requests in the order they were enqueued: no
\* request stands ahead of one that was already enqueued when it began.
C8_Fifo ==
  \A i, j \in 1..Len(Pending) :
    i < j => Pending[j].id \notin Pending[i].after

\* the earlier request is being executed while the later one waits behind it
C8_Witness ==
  /\ Len(Pending) >= 2
  /\ Pending[1].id \in Pending[2].after
  /\ preq = Pending[1]
  /\ ppc = "sleep"

\* C9: at most one request is between its "on" and its "off", and the
\* processor takes no other request before that "off".
C9_OneAtATime ==
  /\ Cardinality(running) <= 1
  /\ running # {} => ppc \in {"sleep", "off"} /\ running = {preq.id}

\* a request is between "on" and "off" while another one waits in the queue
C9_Witness ==
  /\ running # {}
  /\ Len(motorQueue) > 0

\* C10: a quota check made after the reset timestamp, at admission or at
\* dequeue, zeroes the usage and sets the timestamp to now + 24h before it
\* compares; a request with d <= limit then passes.
C10_LazyReset ==
  [][/\ \A h \in Handlers :
          (hpc[h] = "q_check" /\ StepOf(h) /\ now > quotaResetTime)
            => /\ quotaResetTime' = now + QuotaPeriod
               /\ totalMotorTime' = 0
               /\ hloc[h].d <= motorQuota
                    => ~(hpc'[h] = "done" /\ hloc'[h].code = 429)
     /\ (ppc = "q_check" /\ ppc' # ppc /\ now > quotaResetTime)
            => /\ quotaResetTime' = now + QuotaPeriod
               /\ preq.d <= motorQuota
                    => ppc' = "on" /\ totalMotorTime' = preq.d
               /\ preq.d > motorQuota => totalMotorTime' = 0]_vars

\* an admission passed the quota check that the usage of the expired window
\* would have failed
C10_Witness ==
  \E h \in Handlers :
    /\ hpc[h] = "audit" /\ hloc[h].id = 2
    /\ hloc[h].d > 0 /\ hloc[h].d <= motorQuota
    /\ expiredTotal + hloc[h].d > motorQuota
    /\ totalMotorTime = 0
    /\ quotaResetTime = now + QuotaPeriod


C12_MetadataReported ==
  [][/\ \A h \in Handlers :
          (/\ hpc[h] = "sd_read_by" /\ StepOf(h)
           /\ isShutdown /\ apc \in {"idle", "done"})
            => /\ hloc'[h].code = 503
               /\ hloc'[h].reason = shutdownReason
               /\ hloc'[h].by = shutdownBy
     /\ (/\ spc = "s_read" /\ spc' # spc
         /\ isShutdown /\ apc \in {"idle", "done"})
            => /\ sloc'.is_shutdown
               /\ sloc'.reason = shutdownReason
               /\ sloc'.by = shutdownBy]_vars


C14_PositiveDurations ==
  /\ \A i \in 1..Len(motorQueue) : motorQueue[i].d > 0
  /\ \A h \in Handlers :
       (hpc[h] \notin {"idle", "sd_lock", "sd_check", "sd_read_reason",
                       "sd_read_by"}
        /\ hloc[h].code # 503
        /\ (~hloc[h].body.has \/ hloc[h].body.duration <= 0))
         => Answered(h, 400)


\* C15: an admission never has to wait for the processor: while the
\* processor holds a request for its duration, or stands anywhere else, a
\* handler that has reached the enqueue can complete it on its own.
C15_AdmissionNeverWaits ==
  \A h \in Handlers :
    (hpc[h] = "send" /\ ppc \in {"on", "sleep", "off"}) => ENABLED AdmitSend(h)


\* C16: forceShutdown(r, who), in Normal or over a standing shutdown, leaves
\* isShutdown set with reason r, initiator who and the current time and
\* releases the lock; it then publishes "off" without holding the lock, and
\* the publish, failed or not, leaves the shutdown state as it was set.
C16_ForceShutdown ==
  [][/\ (apc = "f_set" /\ apc' # apc)
          => /\ isShutdown'
             /\ shutdownReason' = aloc.reason
             /\ shutdownBy' = aloc.user
             /\ shutdownAt' = now
             /\ shutdownMutex' = "free"
     /\ (apc = "f_pub" /\ apc' # apc)
          => /\ shutdownMutex # "admin"
             /\ motor'.cmd = "off" /\ motor'.src = "admin"
             /\ apc' = "f_resp"
             /\ UNCHANGED << isShutdown, shutdownReason, shutdownBy,
                             shutdownAt >>]_vars

\* a second forceShutdown replaced the metadata an admission had been given,
\* and its "off" could not be published
C16_Witness ==
  /\ apc = "f_resp" /\ adminOps = 2
  /\ motor.cmd = "off" /\ motor.src = "admin" /\ ~motor.ok
  /\ isShutdown /\ shutdownReason = "fault" /\ shutdownBy = "opB"
  /\ \E h \in Handlers :
       /\ Answered(h, 503)
       /\ hloc[h].reason = "maintenance" /\ hloc[h].by = "opA"

\* C17: restart leaves the system Normal with reason, initiator and
\* timestamp cleared together: whenever isShutdown is false the reason and
\* the initiator are empty and the timestamp is zero.
C17_NormalIsClear ==
  /\ ~isShutdown
       => shutdownReason = "" /\ shutdownBy = "" /\ shutdownAt = ZeroTime
  /\ (aloc.op = "restart" /\ apc = "done") => ~isShutdown /\ aloc.code = 200

\* a restart has cleared a shutdown whose metadata an admission had been given
C17_Witness ==
  /\ aloc.op = "restart" /\ apc = "done"
  /\ ~isShutdown /\ shutdownReason = ""
  /\ \E h \in Handlers : Answered(h, 503) /\ hloc[h].by # ""


\* C18: status only reads: none of its steps changes the usage, the reset
\* timestamp, the shutdown state or the queue (no lazy reset, even of an
\* expired window), and it never holds the shutdown lock and the quota lock
\* at the same time.
C18_StatusPureRead ==
  /\ [](~(shutdownMutex = "status" /\ motorQuotaMutex = "status"))
  /\ [][spc' # spc
          => UNCHANGED << totalMotorTime, quotaResetTime, isShutdown,
                          shutdownReason, shutdownBy, shutdownAt, motorQueue,
                          activations, motor >>]_vars

\* a status taken during a shutdown that began after the window had expired
\* reported the standing usage and the old reset timestamp, and both are
\* still in place
C18_Witness ==
  /\ spc = "done" /\ sloc.code = 200
  /\ sloc.is_shutdown /\ sloc.at > sloc.reset
  /\ sloc.total > 0
  /\ totalMotorTime = sloc.total /\ quotaResetTime = sloc.reset


\* C19: no lock is held across a wait: the processor holds neither lock
\* while it waits for a request, publishes or sleeps, and a handler holds
\* neither lock while it writes the audit row or sends to the queue.
C19_NoLockAcrossWait ==
  /\ ppc \in {"recv", "on", "sleep", "off"}
       => motorQuotaMutex # "proc" /\ shutdownMutex # "proc"
  /\ \A h \in Handlers :
       hpc[h] \in {"audit", "send"}
         => motorQuotaMutex # h /\ shutdownMutex # h

\* while the processor sleeps and one handler stands at the send, another
\* handler holds the quota lock
C19_Witness ==
  /\ ppc = "sleep"
  /\ \E h, g \in Handlers :
       h # g /\ hpc[h] = "send" /\ motorQuotaMutex = g


\* C20: only a user whose role is admin moves the system into Shutdown: a
\* standing shutdown was initiated by an admin, and a force-shutdown request
\* of any other authenticated user is not answered 200.
C20_OnlyAdminShutsDown ==
  /\ isShutdown => Role(shutdownBy) = "admin"
  /\ (aloc.op = "shutdown" /\ aloc.code = 200) => Role(aloc.user) = "admin"


\* C21: once Register(e, p) has succeeded, Login(e, p) is answered 200 with a
\* token, and Login(e, p') with another password is answered 401 without one.
C21_LoginAfterRegister ==
  (/\ uresp.op = "login"
   /\ uresp.email \in Emails /\ uresp.password # ""
   /\ users[uresp.email] # NoHash)
    => IF users[uresp.email] = Hash(uresp.password)
         THEN uresp.code = 200 /\ uresp.token
         ELSE uresp.code = 401 /\ ~uresp.token


\* C22: the quota check at dequeue, after the lazy reset: a request with
\* accumulated + d > limit is dropped and the usage stays as it is; any other
\* is charged (usage grows by d) and goes on to be executed.
C22_DequeueQuotaRule ==
  [][(ppc = "q_check" /\ ppc' # ppc)
       => LET a == ResetTotal(now, quotaResetTime, totalMotorTime) IN
            IF a + preq.d > motorQuota
              THEN ppc' = "recv" /\ totalMotorTime' = a /\ motor' = motor
              ELSE ppc' = "on" /\ totalMotorTime' = a + preq.d]_vars

\* C23: a request the processor finds the system shut down for is discarded:
\* no command is published, usage and reset timestamp stay, no handler is
\* told, the processor returns to the queue and the request is gone.
C23_ShutdownDrop ==
  [][(ppc = "sd_check" /\ isShutdown /\ ppc' # ppc)
       => /\ ppc' = "recv" /\ preq' = NoReq
          /\ preq.id \notin {motorQueue'[i].id : i \in 1..Len(motorQueue')}
          /\ UNCHANGED << motor, totalMotorTime, quotaResetTime, windowSum,
                          running, hpc, hloc, activations >>]_vars

\* the only request sent was dropped during a shutdown; after the restart
\* the processor waits on an empty queue and has published nothing
C23_Witness ==
  /\ sent = 1 /\ Pending = << >> /\ ppc = "recv"
  /\ windowSum = 0 /\ totalMotorTime = 0 /\ now = 0
  /\ motor.src # "proc"
  /\ ~isShutdown /\ aloc.op = "restart" /\ apc = "done" /\ adminOps = 2

\* C24: the queue never grows at a moment when isShutdown is set.
C24_NoEnqueueInShutdown ==
  [][Len(motorQueue') > Len(motorQueue) => ~isShutdown]_vars


\* C25: a request the processor switched on is eventually switched off and
\* the processor returns to the queue, whether or not the publishes succeed;
\* with fair scheduling every request in the queue is eventually taken out
\* of it and the processor finishes with it (executed or dropped).
C25_OnThenOff ==
  /\ \A id \in 1..LiveAttempts : (id \in running) ~> (id \notin running)
  /\ \A id \in 1..LiveAttempts : (preq.id = id /\ ppc # "recv") ~> (ppc = "recv")
  /\ \A id \in 1..LiveAttempts : (id \in PendingIds) ~> (id \notin PendingIds)

\* the processor has published "on" for a request, the publish failed, and
\* the request is being timed while another waits in the queue
C25_Witness ==
  /\ ppc = "sleep" /\ motor = Publish("on", "proc", FALSE)
  /\ preq.id \in running /\ Len(motorQueue) > 0


\* C26: the accumulated usage is never negative.
C26_UsageNonNegative == totalMotorTime >= 0


\* C27: behind AdminMiddleware the handler runs only after the role check
\* has passed and at most once; a request with a valid token whose user is
\* no admin, or is not found, never reaches it and is answered 401 or 403.
C27_HandlerAfterRoleCheck ==
  /\ ~ctx.early
  /\ ctx.ran <= 1
  /\ (ctx.pc = "done" /\ ctx.header = "ok" /\ ctx.user # "admin")
       => (ctx.ran = 0 /\ ctx.code \in {401, 403})


C29_AtomicSnapshot ==
  /\ \A h \in Handlers :
       Answered(h, 503)
         => /\ \E in \in ShutdownInputs :
                 /\ in.reason # "" /\ in.user # NoUser
                 /\ hloc[h].reason = in.reason /\ hloc[h].by = in.user
            /\ hloc[h].at # ZeroTime
  /\ (apc = "done" /\ aloc.op = "shutdown" /\ aloc.code = 200)
       => /\ aloc.rreason = aloc.reason /\ aloc.rby = aloc.user
          /\ aloc.rat # ZeroTime


C31_AdminFrame ==
  [][(apc' # apc \/ aloc' # aloc \/ adminOps' # adminOps)
       => UNCHANGED << totalMotorTime, quotaResetTime, motorQueue >>]_vars

\* a forceShutdown and a restart have both completed while a request waited
\* in the queue and usage had been charged
C31_Witness ==
  /\ aloc.op = "restart" /\ apc = "done" /\ aloc.code = 200 /\ adminOps = 2
  /\ ~isShutdown
  /\ Len(motorQueue) > 0 /\ totalMotorTime > 0


\* C32: the duration in seconds is converted without wrapping: a request on
\* its way to the queue, or accepted, asked for no more than the quota limit
\* and carries exactly the duration it asked for.
C32_ConversionExact ==
  \A h \in Handlers :
    (hpc[h] \in {"audit", "send"} \/ Answered(h, 200))
      => /\ hloc[h].body.duration * Second <= motorQuota
         /\ hloc[h].d = hloc[h].body.duration * Second

====
